---- MODULE Spec2Model ----
(***************************************************************************)
(* A model of scripts/download-sample-pdfs.py: the sampler-downloader that *)
(* reads a CSV table of records (journal, doi, oa_url, downloaded), walks  *)
(* it in file order, downloads up to TOTAL_PDFS PDFs (PDFS_PER_JOURNAL     *)
(* from each of NUM_JOURNALS journals) and rewrites the CSV after every    *)
(* attempt.  One behaviour of the model is a sequence of invocations of    *)
(* main() against the same CSV file.  The outcome of a fetch is an input   *)
(* of the step that makes it.  Further specifications add interruptions,   *)
(* an unreliable network, a second process on the same file, and the       *)
(* file-name encoding of two identifiers.                                  *)
(***************************************************************************)
EXTENDS Integers, Sequences, FiniteSets

VARIABLES
    journal,                \* the table's journal column, in file order (never written)
    disk,                   \* the CSV file: [header |-> BOOLEAN, rows |-> statuses in file order]
    files,                  \* the records whose PDF file exists in PDF_FOLDER
    pc,                     \* the position of the process
    rows,                   \* main: rows (the 'downloaded' field of each row, in memory)
    journals_by_priority,   \* main: journals_by_priority
    downloads_successful,   \* main: downloads_successful
    downloads_per_journal,  \* main: downloads_per_journal
    attempted_per_journal,  \* main: attempted_per_journal
    active_journals,        \* main: active_journals
    i,                      \* main: the loop index (1-based)
    exit_code,              \* the value the last completed main() returned (NoExit: none yet)
    runs,                   \* the number of invocations so far
    kills,                  \* the number of interruptions so far
    loaded,                 \* history: the statuses read by the current run's load
    fetches,                \* history: the number of download_pdf calls per record, over all runs
    doi,                    \* encode_doi_for_filename: the identifiers of two records
    filename,               \* main: the file names computed for them (encoded name + ".pdf")
    other                   \* the variables of main() in a second, suspended process

vars == <<journal, disk, files, pc, rows, journals_by_priority,
          downloads_successful, downloads_per_journal, attempted_per_journal,
          active_journals, i, exit_code, runs, kills, loaded, fetches,
          doi, filename, other>>

----------------------------------------------------------------------------
(* Program constants.                                                      *)

PDFS_PER_JOURNAL == 2
NUM_JOURNALS == 5
TOTAL_PDFS == PDFS_PER_JOURNAL * NUM_JOURNALS

(* Bounds of the model.                                                    *)

\* the number of records of the table
NumRows == 12
\* at most this many fetches fail in one behaviour
MaxFailures == 1
\* at most this many invocations of main() in one behaviour
MaxRuns == 3
\* at most this many interruptions in one behaviour
MaxKills == 1

\* journal names: one more journal than a run may activate
NumJournalNames == NUM_JOURNALS + 1
\* records per journal: up to one more than the per-journal quota
MaxPerJournal == PDFS_PER_JOURNAL + 1

Journals == 1..NumJournalNames
Statuses == {"", "yes", "unavailable"}
NoExit == -1

----------------------------------------------------------------------------
(* Tables: the bounded family of CSV files the model starts from.          *)

RECURSIVE Repeat(_, _)
Repeat(x, n) == IF n = 0 THEN <<>> ELSE <<x>> \o Repeat(x, n - 1)

RECURSIVE SumUpTo(_, _)
SumUpTo(f, n) == IF n = 0 THEN 0 ELSE f[n] + SumUpTo(f, n - 1)

\* the records of journal 1, then those of journal 2, ...
RECURSIVE Blocked(_, _)
Blocked(sizes, j) ==
    IF j > NumJournalNames THEN <<>>
    ELSE Repeat(j, sizes[j]) \o Blocked(sizes, j + 1)

\* one record of each journal in turn, while the journal has records left
RECURSIVE Interleaved(_, _, _)
Interleaved(sizes, round, j) ==
    IF round > MaxPerJournal THEN <<>>
    ELSE IF j > NumJournalNames THEN Interleaved(sizes, round + 1, 1)
    ELSE (IF sizes[j] >= round THEN <<j>> ELSE <<>>) \o Interleaved(sizes, round, j + 1)

Reverse(s) == [k \in 1..Len(s) |-> s[Len(s) + 1 - k]]

Shapes == {s \in [Journals -> 0..MaxPerJournal] : SumUpTo(s, NumJournalNames) = NumRows}

\* journal by journal in name order, or round-robin against name order
Tables == UNION {{Blocked(s, 1), Reverse(Interleaved(s, 1, 1))} : s \in Shapes}

----------------------------------------------------------------------------
(* Pure functions of the script.                                           *)

\* str.lower() on the status values a CSV may hold
Lower(s) ==
    CASE s = "YES" -> "yes"
      [] s = "Yes" -> "yes"
      [] s = "UNAVAILABLE" -> "unavailable"
      [] OTHER -> s

\* fault variant: 'unavailable' records are not skipped (C2 fails with it)
IsSettled_YesOnly(status) == Lower(status) \in {"yes"}

\* fault variant: 'yes' records are not skipped (C3 fails with it)
IsSettled_UnavailableOnly(status) == Lower(status) \in {"unavailable"}

\* main, lines 198-200: the record was already downloaded or is unavailable
IsSettled(status) == Lower(status) \in {"yes", "unavailable"}

JournalsOf(rs) == {journal[r] : r \in 1..Len(rs)}

\* get_journal_download_stats: per journal, total and number of 'yes' records
get_journal_download_stats(rs) ==
    [j \in JournalsOf(rs) |->
        [total |-> Cardinality({r \in 1..Len(rs) : journal[r] = j}),
         downloaded |-> Cardinality({r \in 1..Len(rs) :
                                       journal[r] = j /\ Lower(rs[r]) = "yes"})]]

\* the sort key (downloaded, name), compared as Python compares tuples
KeyLeq(stats, j, k) ==
    \/ stats[j].downloaded < stats[k].downloaded
    \/ stats[j].downloaded = stats[k].downloaded /\ j <= k

RECURSIVE SortedByKey(_, _)
SortedByKey(S, stats) ==
    IF S = {} THEN <<>>
    ELSE LET m == CHOOSE j \in S : \A k \in S : KeyLeq(stats, j, k)
         IN  <<m>> \o SortedByKey(S \ {m}, stats)

\* fault variant: only the journals without downloads are listed (C7 fails with it)
get_sorted_journals_by_priority_ZeroOnly(rs) ==
    LET stats == get_journal_download_stats(rs)
    IN  SortedByKey({j \in DOMAIN stats : stats[j].downloaded = 0}, stats)

\* get_sorted_journals_by_priority: fewest downloads first, then by name
get_sorted_journals_by_priority(rs) ==
    LET stats == get_journal_download_stats(rs)
    IN  SortedByKey(DOMAIN stats, stats)

InList(x, s) == \E k \in 1..Len(s) : s[k] = x

\* sum(downloads_per_journal.values())
SumValues(f) == SumUpTo(f, NumJournalNames)

\* fault variant: one journal too many is admitted (C5 fails with it)
NeedMoreJournals_Inclusive(active) == Cardinality(active) <= NUM_JOURNALS

\* main, line 207: fewer journals are active than the target number
NeedMoreJournals(active) == Cardinality(active) < NUM_JOURNALS

\* fault variant: the successes so far are not added in (C17 fails with it)
RunningShort_NoSuccesses(active, successful, perJournal) ==
    Cardinality(active) * PDFS_PER_JOURNAL - SumValues(perJournal) < TOTAL_PDFS

\* main, line 213: the active journals cannot reach the target any more
RunningShort(active, successful, perJournal) ==
    successful + (Cardinality(active) * PDFS_PER_JOURNAL - SumValues(perJournal))
        < TOTAL_PDFS

\* fault variant: only the first NUM_JOURNALS journals of the priority list are
\* admitted (C18 fails with it)
Activate_ByPriority(j, active, successful, perJournal, priority) ==
    IF j \in active THEN active
    ELSE IF NeedMoreJournals(active)
         THEN (IF \E k \in 1..NUM_JOURNALS : k <= Len(priority) /\ priority[k] = j
               THEN active \cup {j} ELSE active)
    ELSE active

\* main, lines 205-217: the active set after examining a record of journal j
Activate(j, active, successful, perJournal, priority) ==
    IF j \in active THEN active
    ELSE IF NeedMoreJournals(active)
         THEN (IF InList(j, priority) THEN active \cup {j} ELSE active)
    ELSE IF RunningShort(active, successful, perJournal)
         THEN (IF InList(j, priority) /\ j \notin active THEN active \cup {j} ELSE active)
    ELSE active

\* fault variant: the quota test is strict (C4 fails with it)
QuotaReached_Strict(perJournal, j) == perJournal[j] > PDFS_PER_JOURNAL

\* main, line 224: the journal already has its quota of downloads
QuotaReached(perJournal, j) == perJournal[j] >= PDFS_PER_JOURNAL

\* fault variant: the loop goes on at the target (C15 fails with it)
TargetReached_Strict(successful) == successful > TOTAL_PDFS

\* main, line 193: the loop stops
TargetReached(successful) == successful >= TOTAL_PDFS

\* fault variant: the final test is off by one (C1 fails with it)
ExitCode_OffByOne(successful) == IF successful <= TOTAL_PDFS THEN 1 ELSE 0

\* main, lines 263-268: the value main returns
ExitCode(successful) == IF successful < TOTAL_PDFS THEN 1 ELSE 0

----------------------------------------------------------------------------
(* The state after construction: a CSV file on disk, nothing run yet.      *)

ZeroPerJournal == [j \in Journals |-> 0]

\* the variables of one process that has not called main() yet
NotStarted ==
    [pc |-> "idle", rows |-> <<>>, journals_by_priority |-> <<>>,
     downloads_successful |-> 0, downloads_per_journal |-> ZeroPerJournal,
     attempted_per_journal |-> ZeroPerJournal, active_journals |-> {},
     i |-> 0, exit_code |-> NoExit, loaded |-> <<>>]

InitFrom(tables) ==
    /\ journal \in tables
    /\ disk = [header |-> TRUE, rows |-> [r \in 1..Len(journal) |-> ""]]
    /\ files = {}
    /\ pc = "idle"
    /\ rows = <<>>
    /\ journals_by_priority = <<>>
    /\ downloads_successful = 0
    /\ downloads_per_journal = ZeroPerJournal
    /\ attempted_per_journal = ZeroPerJournal
    /\ active_journals = {}
    /\ i = 0
    /\ exit_code = NoExit
    /\ runs = 0
    /\ kills = 0
    /\ loaded = <<>>
    /\ fetches = [r \in 1..Len(journal) |-> 0]
    /\ doi = <<>>
    /\ filename = <<>>
    /\ other = NotStarted

Init == InitFrom(Tables)

----------------------------------------------------------------------------
(* The steps of main().                                                    *)

\* main, lines 168-189: load the CSV, compute the priority list, reset the counters.
\* An empty file has no header: csv.DictReader.fieldnames is None and line 45 raises.
StartRun ==
    /\ pc \in {"idle", "done", "killed", "crashed"}
    /\ runs < MaxRuns
    /\ runs' = runs + 1
    /\ downloads_successful' = 0
    /\ downloads_per_journal' = ZeroPerJournal
    /\ attempted_per_journal' = ZeroPerJournal
    /\ active_journals' = {}
    /\ IF disk.header
       THEN /\ rows' = disk.rows
            /\ loaded' = disk.rows
            /\ journals_by_priority' = get_sorted_journals_by_priority(disk.rows)
            /\ i' = 1
            /\ pc' = "loop"
       ELSE /\ rows' = <<>>
            /\ loaded' = <<>>
            /\ journals_by_priority' = <<>>
            /\ i' = 0
            /\ pc' = "crashed"
    /\ UNCHANGED <<doi, filename, other, journal, disk, files, exit_code, kills, fetches>>

\* main, lines 192-194 and 255-268: the loop ends and main returns
Finish ==
    /\ pc = "loop"
    /\ i > Len(rows) \/ TargetReached(downloads_successful)
    /\ exit_code' = ExitCode(downloads_successful)
    /\ pc' = "done"
    /\ UNCHANGED <<doi, filename, other, journal, disk, files, rows, journals_by_priority,
                   downloads_successful, downloads_per_journal, attempted_per_journal,
                   active_journals, i, runs, kills, loaded, fetches>>

Examining ==
    /\ pc = "loop"
    /\ i <= Len(rows)
    /\ ~TargetReached(downloads_successful)

ActiveNow ==
    Activate(journal[i], active_journals, downloads_successful,
             downloads_per_journal, journals_by_priority)

\* main, lines 198-201: skip a record that is already downloaded or unavailable
SkipSettled ==
    /\ Examining
    /\ IsSettled(rows[i])
    /\ i' = i + 1
    /\ UNCHANGED <<doi, filename, other, journal, disk, files, pc, rows, journals_by_priority,
                   downloads_successful, downloads_per_journal, attempted_per_journal,
                   active_journals, exit_code, runs, kills, loaded, fetches>>

\* main, lines 205-221: skip a record whose journal is not (made) active
SkipInactive ==
    /\ Examining
    /\ ~IsSettled(rows[i])
    /\ journal[i] \notin ActiveNow
    /\ active_journals' = ActiveNow
    /\ i' = i + 1
    /\ UNCHANGED <<doi, filename, other, journal, disk, files, pc, rows, journals_by_priority,
                   downloads_successful, downloads_per_journal, attempted_per_journal,
                   exit_code, runs, kills, loaded, fetches>>

\* main, lines 223-225: skip a record whose journal has its quota
SkipQuota ==
    /\ Examining
    /\ ~IsSettled(rows[i])
    /\ journal[i] \in ActiveNow
    /\ QuotaReached(downloads_per_journal, journal[i])
    /\ active_journals' = ActiveNow
    /\ i' = i + 1
    /\ UNCHANGED <<doi, filename, other, journal, disk, files, pc, rows, journals_by_priority,
                   downloads_successful, downloads_per_journal, attempted_per_journal,
                   exit_code, runs, kills, loaded, fetches>>

\* download_pdf: what one fetch may return (True: a PDF was received and saved)
Outcomes ==
    IF Cardinality({r \in 1..Len(rows) : rows[r] = "unavailable"}) < MaxFailures
    THEN BOOLEAN ELSE {TRUE}

\* fault variant: the response is written to the file before it is checked for
\* the %PDF signature (C11 fails with it)
DownloadWith_WriteFirst(outcomes) ==
    /\ Examining
    /\ ~IsSettled(rows[i])
    /\ journal[i] \in ActiveNow
    /\ ~QuotaReached(downloads_per_journal, journal[i])
    /\ active_journals' = ActiveNow
    /\ attempted_per_journal' =
           [attempted_per_journal EXCEPT ![journal[i]] = @ + 1]
    /\ fetches' = [fetches EXCEPT ![i] = @ + 1]
    /\ \E ok \in outcomes :
          IF ok
          THEN files' = files \cup {i} /\ pc' = "mark_yes"
          ELSE files' = files \cup {i} /\ pc' = "mark_unavailable"
    /\ UNCHANGED <<doi, filename, other, journal, disk, rows, journals_by_priority,
                   downloads_successful, downloads_per_journal, i, exit_code,
                   runs, kills, loaded>>

\* fault variant: success is reported without writing the file (C19 fails with it)
DownloadWith_NoFile(outcomes) ==
    /\ Examining
    /\ ~IsSettled(rows[i])
    /\ journal[i] \in ActiveNow
    /\ ~QuotaReached(downloads_per_journal, journal[i])
    /\ active_journals' = ActiveNow
    /\ attempted_per_journal' =
           [attempted_per_journal EXCEPT ![journal[i]] = @ + 1]
    /\ fetches' = [fetches EXCEPT ![i] = @ + 1]
    /\ \E ok \in outcomes :
          IF ok
          THEN files' = files /\ pc' = "mark_yes"
          ELSE files' = files /\ pc' = "mark_unavailable"
    /\ UNCHANGED <<doi, filename, other, journal, disk, rows, journals_by_priority,
                   downloads_successful, downloads_per_journal, i, exit_code,
                   runs, kills, loaded>>

\* main, lines 227-238 and download_pdf: one fetch whose outcome is one of
\* `outcomes`; the payload is checked (line 145) before the PDF file is written
\* (lines 149-150), so a file is written on success only
DownloadWith(outcomes) ==
    /\ Examining
    /\ ~IsSettled(rows[i])
    /\ journal[i] \in ActiveNow
    /\ ~QuotaReached(downloads_per_journal, journal[i])
    /\ active_journals' = ActiveNow
    /\ attempted_per_journal' =
           [attempted_per_journal EXCEPT ![journal[i]] = @ + 1]
    /\ fetches' = [fetches EXCEPT ![i] = @ + 1]
    /\ \E ok \in outcomes :
          IF ok
          THEN files' = files \cup {i} /\ pc' = "mark_yes"
          ELSE files' = files /\ pc' = "mark_unavailable"
    /\ UNCHANGED <<doi, filename, other, journal, disk, rows, journals_by_priority,
                   downloads_successful, downloads_per_journal, i, exit_code,
                   runs, kills, loaded>>

\* a fetch of the main scenarios: at most MaxFailures fetches fail
Download == DownloadWith(Outcomes)

\* a fetch that may fail every time
DownloadAny == DownloadWith(BOOLEAN)

\* fault variant: the per-journal count is not incremented (C10 fails with it)
MarkYes_NoPerJournal ==
    /\ pc = "mark_yes"
    /\ rows' = [rows EXCEPT ![i] = "yes"]
    /\ downloads_successful' = downloads_successful + 1
    /\ pc' = "write_csv"
    /\ UNCHANGED <<doi, filename, other, journal, disk, files, journals_by_priority,
                   downloads_per_journal, attempted_per_journal, active_journals,
                   i, exit_code, runs, kills, loaded, fetches>>

\* main, lines 239-241
MarkYes ==
    /\ pc = "mark_yes"
    /\ rows' = [rows EXCEPT ![i] = "yes"]
    /\ downloads_successful' = downloads_successful + 1
    /\ downloads_per_journal' =
           [downloads_per_journal EXCEPT ![journal[i]] = @ + 1]
    /\ pc' = "write_csv"
    /\ UNCHANGED <<doi, filename, other, journal, disk, files, journals_by_priority,
                   attempted_per_journal, active_journals, i, exit_code, runs, kills,
                   loaded, fetches>>

\* fault variant: a failure is not saved before the next record (C8 fails with it)
MarkUnavailable_NoSave ==
    /\ pc = "mark_unavailable"
    /\ rows' = [rows EXCEPT ![i] = "unavailable"]
    /\ pc' = "loop"
    /\ i' = i + 1
    /\ UNCHANGED <<doi, filename, other, journal, disk, files, journals_by_priority,
                   downloads_successful, downloads_per_journal,
                   attempted_per_journal, active_journals, exit_code, runs,
                   kills, loaded, fetches>>

\* fault variant: every unattempted record of the journal is marked (C16 fails with it)
MarkUnavailable_WholeJournal ==
    /\ pc = "mark_unavailable"
    /\ rows' = [r \in DOMAIN rows |->
                   IF journal[r] = journal[i] /\ rows[r] = ""
                   THEN "unavailable" ELSE rows[r]]
    /\ pc' = "write_csv"
    /\ UNCHANGED <<doi, filename, other, journal, disk, files, journals_by_priority,
                   downloads_successful, downloads_per_journal,
                   attempted_per_journal, active_journals, i, exit_code, runs, kills,
                   loaded, fetches>>

\* main, line 251
MarkUnavailable ==
    /\ pc = "mark_unavailable"
    /\ rows' = [rows EXCEPT ![i] = "unavailable"]
    /\ pc' = "write_csv"
    /\ UNCHANGED <<doi, filename, other, journal, disk, files, journals_by_priority,
                   downloads_successful, downloads_per_journal,
                   attempted_per_journal, active_journals, i, exit_code, runs, kills,
                   loaded, fetches>>

\* write_csv, line 60: open(csv_path, 'w') truncates the file
WriteOpen ==
    /\ pc = "write_csv"
    /\ disk' = [header |-> FALSE, rows |-> <<>>]
    /\ pc' = "writing"
    /\ UNCHANGED <<doi, filename, other, journal, files, rows, journals_by_priority,
                   downloads_successful, downloads_per_journal,
                   attempted_per_journal, active_journals, i, exit_code, runs, kills,
                   loaded, fetches>>

\* main, line 247: the politeness pause follows a success short of the target
PauseNext == rows[i] = "yes" /\ downloads_successful < TOTAL_PDFS

\* fault variant: only the record just attempted is written over what was loaded
\* (C14 fails with it)
WriteClose_OwnRecord ==
    /\ pc = "writing"
    /\ disk' = [header |-> TRUE, rows |-> [loaded EXCEPT ![i] = rows[i]]]
    /\ IF PauseNext
       THEN pc' = "sleep" /\ i' = i
       ELSE pc' = "loop" /\ i' = i + 1
    /\ UNCHANGED <<doi, filename, other, journal, files, rows, journals_by_priority,
                   downloads_successful, downloads_per_journal,
                   attempted_per_journal, active_journals, exit_code, runs, kills,
                   loaded, fetches>>

\* write_csv, lines 61-63: header and all rows are written and the file is closed
WriteClose ==
    /\ pc = "writing"
    /\ disk' = [header |-> TRUE, rows |-> rows]
    /\ IF PauseNext
       THEN pc' = "sleep" /\ i' = i
       ELSE pc' = "loop" /\ i' = i + 1
    /\ UNCHANGED <<doi, filename, other, journal, files, rows, journals_by_priority,
                   downloads_successful, downloads_per_journal,
                   attempted_per_journal, active_journals, exit_code, runs, kills,
                   loaded, fetches>>

\* main, lines 247-248: time.sleep(1), then the next record
Sleep ==
    /\ pc = "sleep"
    /\ pc' = "loop"
    /\ i' = i + 1
    /\ UNCHANGED <<doi, filename, other, journal, disk, files, rows, journals_by_priority,
                   downloads_successful, downloads_per_journal,
                   attempted_per_journal, active_journals, exit_code, runs, kills,
                   loaded, fetches>>

Next ==
    \/ StartRun
    \/ Finish
    \/ SkipSettled
    \/ SkipInactive
    \/ SkipQuota
    \/ Download
    \/ MarkYes
    \/ MarkUnavailable
    \/ WriteOpen
    \/ WriteClose
    \/ Sleep

Spec == Init /\ [][Next]_vars

----------------------------------------------------------------------------
(* Interruption: the process is killed at some point of a run.  Its memory *)
(* is lost; the CSV file and the PDF folder stay as they are.  A kill      *)
(* inside write_csv, after open(..., 'w') truncated the file and before    *)
(* close() flushed it, leaves whatever part of the buffered output reached *)
(* the file: nothing, the header, or the header and some of the rows.      *)

Running == {"loop", "mark_yes", "mark_unavailable", "write_csv", "writing", "sleep"}

Prefix(s, k) == [r \in 1..k |-> s[r]]

\* what a kill may leave of the file
TornFiles ==
    IF pc = "writing"
    THEN {[header |-> FALSE, rows |-> <<>>]}
         \cup {[header |-> TRUE, rows |-> Prefix(rows, k)] : k \in 0..Len(rows)}
    ELSE {disk}

Kill ==
    /\ pc \in Running
    /\ kills < MaxKills
    /\ disk' \in TornFiles
    /\ pc' = "killed"
    /\ rows' = <<>>
    /\ loaded' = <<>>
    /\ journals_by_priority' = <<>>
    /\ downloads_successful' = 0
    /\ downloads_per_journal' = ZeroPerJournal
    /\ attempted_per_journal' = ZeroPerJournal
    /\ active_journals' = {}
    /\ i' = 0
    /\ exit_code' = NoExit
    /\ kills' = kills + 1
    /\ UNCHANGED <<doi, filename, other, journal, files, runs, fetches>>

\* the tables interrupted runs start from: six journals, sizes in ascending order
KillShapes == {s \in Shapes : \A j \in Journals : s[j] >= 1 /\ (j > 1 => s[j - 1] <= s[j])}

KillTables == UNION {{Blocked(s, 1), Interleaved(s, 1, 1)} : s \in KillShapes}

InitKill == InitFrom(KillTables)

NextKill == Next \/ Kill

SpecKill == InitKill /\ [][NextKill]_vars

\* interrupted runs on the journal-by-journal tables, each started after the
\* run before it was interrupted
ResumeTables == {Blocked(s, 1) : s \in KillShapes}

InitResume == InitFrom(ResumeTables)

NextResume ==
    \/ (runs <= kills /\ StartRun)
    \/ Finish
    \/ SkipSettled
    \/ SkipInactive
    \/ SkipQuota
    \/ Download
    \/ MarkYes
    \/ MarkUnavailable
    \/ WriteOpen
    \/ WriteClose
    \/ Sleep
    \/ Kill

SpecResume == InitResume /\ [][NextResume]_vars

----------------------------------------------------------------------------
(* Unreliable network: any fetch may fail, without a bound on the failures *)

InitFail == InitFrom(KillTables)

NextFail ==
    \/ StartRun
    \/ Finish
    \/ SkipSettled
    \/ SkipInactive
    \/ SkipQuota
    \/ DownloadAny
    \/ MarkYes
    \/ MarkUnavailable
    \/ WriteOpen
    \/ WriteClose
    \/ Sleep

SpecFail == InitFail /\ [][NextFail]_vars

----------------------------------------------------------------------------
(* Derived notions used by the properties.                                 *)

Records == 1..Len(rows)

\* the records this run turned into 'yes'
NewYes == {r \in Records : rows[r] = "yes" /\ loaded[r] # "yes"}

NewYesOf(j) == {r \in NewYes : journal[r] = j}

Unattempted(rs) == {r \in 1..Len(rs) : rs[r] = ""}

\* a fetch of record i has just returned and its outcome is not yet recorded
FetchInFlight == pc \in {"mark_yes", "mark_unavailable"}

----------------------------------------------------------------------------
(* C1: main() returns 0 exactly when the run ends with TOTAL_PDFS records  *)
(* downloaded by this run, and returns a non-zero code when the run ends   *)
(* (rows exhausted, or no eligible record left) short of the target.       *)
C1_ExitCode ==
    pc = "done" =>
        /\ exit_code \in {0, 1}
        /\ exit_code = 0 <=> Cardinality(NewYes) = TOTAL_PDFS
        /\ exit_code # 0 <=> Cardinality(NewYes) < TOTAL_PDFS

\* both outcomes occur: here a run that reached the target
C1_Witness == pc = "done" /\ exit_code = 0 /\ Cardinality(NewYes) = TOTAL_PDFS

(* C2: every status, in memory and on disk, is "", "yes" or "unavailable"; *)
(* the only changes of a record's status are "" -> "yes" and               *)
(* "" -> "unavailable", within a run and from one run to the next.         *)
C2_StatusTransitions ==
    [][/\ \A r \in DOMAIN rows' : rows'[r] \in Statuses
       /\ \A r \in DOMAIN disk'.rows : disk'.rows[r] \in Statuses
       /\ \A r \in DOMAIN rows \cap DOMAIN rows' :
             rows'[r] # rows[r] =>
                 rows[r] = "" /\ rows'[r] \in {"yes", "unavailable"}]_vars

\* a later run ended with a record still 'unavailable' and another still 'yes'
C2_Witness ==
    /\ pc = "done" /\ runs >= 2
    /\ \E r \in Records : loaded[r] = "unavailable" /\ rows[r] = "unavailable"
    /\ \E r \in Records : loaded[r] = "yes" /\ rows[r] = "yes"

(* C3: a record whose stored status is 'yes' or 'unavailable' when a run   *)
(* loads it is not fetched in that run; over all runs each record is       *)
(* fetched at most once, and the set of unattempted records only shrinks.  *)
C3_NoReattempt ==
    [][/\ \A r \in DOMAIN fetches : fetches'[r] <= 1
       /\ \A r \in DOMAIN fetches :
             fetches'[r] > fetches[r] => ~IsSettled(loaded[r]) /\ ~IsSettled(rows[r])
       /\ Len(rows) = Len(rows') => Unattempted(rows') \subseteq Unattempted(rows)]_vars

\* a third run finished over records settled by two different earlier runs
C3_Witness ==
    /\ pc = "done" /\ runs = MaxRuns
    /\ \E r \in Records : IsSettled(loaded[r]) /\ fetches[r] = 1
    /\ \A r \in Records : fetches[r] = 1

(* C4: no journal is credited more than PDFS_PER_JOURNAL downloads in a    *)
(* run, and no fetch is made for a journal that has reached that count.    *)
C4_Quota ==
    /\ \A j \in Journals :
          /\ downloads_per_journal[j] <= PDFS_PER_JOURNAL
          /\ pc # "idle" => Cardinality(NewYesOf(j)) <= PDFS_PER_JOURNAL
    /\ FetchInFlight => downloads_per_journal[journal[i]] < PDFS_PER_JOURNAL

\* an unattempted record of an active journal was passed over: its journal is full
C4_Witness ==
    /\ pc = "loop"
    /\ \E r \in 1..(i - 1) :
          /\ rows[r] = ""
          /\ journal[r] \in active_journals
          /\ downloads_per_journal[journal[r]] = PDFS_PER_JOURNAL

(* C5: a journal joins the active set while the set already holds          *)
(* NUM_JOURNALS or more journals only if the overflow-rescue condition of  *)
(* line 213 holds at that step.                                            *)
C5_ActivationLimit ==
    [][(active_journals' \ active_journals # {}
            /\ Cardinality(active_journals) >= NUM_JOURNALS)
        => RunningShort(active_journals, downloads_successful,
                        downloads_per_journal)]_vars

\* NUM_JOURNALS journals are active and a record of a further journal was passed over
C5_Witness ==
    /\ pc = "loop"
    /\ Cardinality(active_journals) = NUM_JOURNALS
    /\ \E r \in 1..(i - 1) : rows[r] = "" /\ journal[r] \notin active_journals

----------------------------------------------------------------------------
Min(a, b) == IF a <= b THEN a ELSE b

\* the unattempted records of journal j from the loop position on
RemainingOf(j) == {r \in i..Len(rows) : journal[r] = j /\ rows[r] = ""}

\* what the active journals can still add to this run's successes, at best
ActiveCanSupply ==
    SumUpTo([j \in Journals |->
                IF j \in active_journals
                THEN Min(PDFS_PER_JOURNAL - downloads_per_journal[j],
                         Cardinality(RemainingOf(j)))
                ELSE 0], NumJournalNames)

(* C6: overflow rescue.  When NUM_JOURNALS journals are active, the target *)
(* is not reached, and the active journals cannot supply the missing       *)
(* successes any more, the next unattempted record of an inactive journal  *)
(* met in file order activates its journal and is fetched (so that the run *)
(* goes on to the target while downloadable records remain).               *)
C6_RescueProgress ==
    [][(/\ Examining
        /\ ~IsSettled(rows[i])
        /\ journal[i] \notin active_journals
        /\ Cardinality(active_journals) >= NUM_JOURNALS
        /\ downloads_successful + ActiveCanSupply < TOTAL_PDFS)
       => (journal[i] \in active_journals' /\ fetches'[i] = fetches[i] + 1)]_vars

(* C7, as stated: a second run leaves the storage as the first run left    *)
(* it; after a run that returned 0 the next run fetches nothing and        *)
(* changes no record.                                                      *)
C7_Idempotent ==
    /\ (pc = "done" /\ runs >= 2) => rows = loaded
    /\ (exit_code = 0 /\ pc \in Running) => (pc = "loop" /\ rows = loaded)

(* C7, amended: a run that loads no unattempted record fetches nothing and *)
(* changes nothing, in memory and on disk; a run that loads at least one   *)
(* unattempted record makes at least one fetch, whether or not the run     *)
(* before it reached the target.                                           *)
C7_IdleWhenSettled ==
    /\ (pc \in Running \cup {"done"} /\ Unattempted(loaded) = {}) =>
          /\ pc \in {"loop", "done"}
          /\ rows = loaded
          /\ disk.rows = loaded
          /\ SumValues(attempted_per_journal) = 0
    /\ (pc = "done" /\ Unattempted(loaded) # {}) =>
          SumValues(attempted_per_journal) >= 1

\* a run after the first loaded a table with every record settled, and ended
C7_Witness ==
    /\ pc = "done" /\ runs >= 2
    /\ Len(loaded) = NumRows /\ Unattempted(loaded) = {}
    /\ rows = loaded

(* C8: after every status change the whole file is rewritten before the    *)
(* next record is examined and before the pause: whenever the loop is      *)
(* between two attempts, pausing, or over, the statuses on disk are the    *)
(* statuses in memory.                                                     *)
C8_Persisted ==
    pc \in {"loop", "sleep", "done"} => (disk.header /\ disk.rows = rows)

\* pausing after a success, an earlier failure being on disk as well
C8_Witness ==
    /\ pc = "sleep" /\ rows[i] = "yes" /\ disk.rows = rows
    /\ \E r \in Records : rows[r] = "unavailable"

(* C9: whenever the process is killed, the file still holds every record   *)
(* with a valid status, and every status other than that of the attempt in *)
(* flight is the one the process had decided.                              *)
C9_InterruptionSafe ==
    [][pc' = "killed" =>
          /\ disk'.header
          /\ Len(disk'.rows) = Len(rows)
          /\ \A r \in 1..Len(rows) :
                /\ disk'.rows[r] \in Statuses
                /\ r # i => disk'.rows[r] = rows[r]]_vars

----------------------------------------------------------------------------
\* the first n distinct journals of the table, in file order
RECURSIVE FirstDistinct(_, _, _)
FirstDistinct(k, seen, n) ==
    IF k > Len(journal) \/ Cardinality(seen) = n THEN seen
    ELSE FirstDistinct(k + 1, seen \cup {journal[k]}, n)

RecordsOf(j) == {r \in 1..Len(journal) : journal[r] = j}

YesRecords == {r \in Records : rows[r] = "yes"}

Contributing == {journal[r] : r \in YesRecords}

\* a first run over a fresh table ended, every fetch it made having succeeded
AllFetchesSucceeded ==
    /\ pc = "done" /\ runs = 1
    /\ \A r \in Records : rows[r] # "unavailable"

SixGroups == Cardinality(JournalsOf(rows)) = NUM_JOURNALS + 1

TenAcrossFive ==
    /\ Cardinality(YesRecords) = TOTAL_PDFS
    /\ Cardinality(Contributing) = NUM_JOURNALS
    /\ \A j \in Contributing :
          Cardinality({r \in YesRecords : journal[r] = j}) = PDFS_PER_JOURNAL
    /\ exit_code = 0

(* C10, as stated: on every table of 12 records across 6 groups, none      *)
(* downloaded before, with every fetch succeeding, the run ends with 10    *)
(* records 'yes', from exactly 5 groups, 2 from each, and exit code 0.     *)
C10_EndToEnd ==
    (AllFetchesSucceeded /\ Len(rows) = 12 /\ SixGroups) => TenAcrossFive

\* each of the first NUM_JOURNALS distinct groups in file order has its quota of records
FirstGroupsSuffice ==
    \A j \in FirstDistinct(1, {}, NUM_JOURNALS) :
        Cardinality(RecordsOf(j)) >= PDFS_PER_JOURNAL

(* C10, amended: the same, for the tables in which each of the first       *)
(* NUM_JOURNALS distinct groups in file order has at least                 *)
(* PDFS_PER_JOURNAL records.                                               *)
C10_EndToEndAmended ==
    (AllFetchesSucceeded /\ SixGroups /\ FirstGroupsSuffice) => TenAcrossFive

\* the scenario: 12 records, 6 groups of unequal sizes, all fetched well
C10_Witness ==
    /\ AllFetchesSucceeded /\ Len(rows) = 12 /\ SixGroups /\ FirstGroupsSuffice
    /\ \E j \in Journals : Cardinality(RecordsOf(j)) > PDFS_PER_JOURNAL
    /\ TenAcrossFive

----------------------------------------------------------------------------
(* C15: the loop stops at the target.  downloads_successful never exceeds  *)
(* TOTAL_PDFS, and once it equals TOTAL_PDFS the run makes no fetch and    *)
(* changes no status: the next step of the loop is the return of main.     *)
C15_StopsAtTarget ==
    [][/\ downloads_successful' <= TOTAL_PDFS
       /\ (pc \in Running /\ downloads_successful >= TOTAL_PDFS) =>
             (rows' = rows /\ fetches' = fetches)
       /\ (pc = "loop" /\ downloads_successful >= TOTAL_PDFS) =>
             (pc' = "done" /\ i' = i)]_vars

\* the run returned at the target with records left that it never examined
C15_Witness ==
    /\ pc = "done" /\ downloads_successful = TOTAL_PDFS
    /\ i <= Len(rows)
    /\ \E r \in i..Len(rows) : rows[r] = ""

(* C16: frame condition.  The journal column and the number and order of   *)
(* the records never change; a status changes only when the outcome of a   *)
(* fetch is recorded, and then it is the status of the fetched record and  *)
(* of no other; a step of the loop that skips a record, or ends the loop,  *)
(* changes nothing in memory and nothing on disk.                          *)
C16_Frame ==
    [][/\ journal' = journal
       /\ pc' \in Running => Len(rows') = Len(journal)
       /\ pc \in Running => Len(rows') = Len(rows)
       /\ \A r \in DOMAIN rows \cap DOMAIN rows' :
             rows'[r] # rows[r] => (FetchInFlight /\ r = i)
       /\ FetchInFlight => rows'[i] # rows[i]
       /\ pc = "loop" => (rows' = rows /\ disk' = disk)
       /\ pc' \in {"loop", "sleep", "done"} => Len(disk'.rows) = Len(journal)]_vars

\* a run ended having changed some records and passed over others
C16_Witness ==
    /\ pc = "done" /\ runs = 1
    /\ \E r \in Records : rows[r] = "unavailable"
    /\ \E r \in Records : rows[r] = "yes"
    /\ \E r \in 1..(i - 1) : rows[r] = "" /\ disk.rows[r] = "" /\ fetches[r] = 0

----------------------------------------------------------------------------
\* the records the loop has examined so far in this run
ExaminedUpTo == IF pc \in {"loop", "done"} THEN i - 1 ELSE i

\* the first (up to NUM_JOURNALS) distinct journals, in file order, of the
\* records up to `bound` that were loaded unattempted
RECURSIVE FirstUnsettled(_, _, _)
FirstUnsettled(k, seen, bound) ==
    IF k > bound \/ Cardinality(seen) = NUM_JOURNALS THEN seen
    ELSE FirstUnsettled(k + 1,
                        IF IsSettled(loaded[k]) THEN seen ELSE seen \cup {journal[k]},
                        bound)

FirstOfPriority ==
    {journals_by_priority[k] :
        k \in 1..Min(NUM_JOURNALS, Len(journals_by_priority))}

----------------------------------------------------------------------------
\* no fetch of any run has succeeded
NoSuccess == \A r \in Records : rows[r] # "yes"

Attempted == {r \in Records : fetches[r] > 0}

(* C11: a failed fetch is recovered locally.  The failed fetch writes no   *)
(* file; the record is set to 'unavailable'; the table is saved with that  *)
(* status; and the loop goes on with the next record.  When every fetch    *)
(* has failed, a finished run leaves every attempted record 'unavailable'  *)
(* in memory and on disk, no file at all, and the exit code 1.             *)
C11_FailureRecovered ==
    /\ []((pc = "done" /\ NoSuccess) =>
             /\ files = {}
             /\ \A r \in Attempted :
                   rows[r] = "unavailable" /\ disk.rows[r] = "unavailable"
             /\ exit_code = 1)
    /\ [][/\ (pc = "loop" /\ pc' = "mark_unavailable") => files' = files
          /\ pc = "mark_unavailable" =>
                (rows' = [rows EXCEPT ![i] = "unavailable"] /\ pc' = "write_csv")
          /\ (pc = "write_csv" /\ rows[i] = "unavailable") => pc' = "writing"
          /\ (pc = "writing" /\ rows[i] = "unavailable") =>
                /\ disk'.header /\ disk'.rows = rows
                /\ files' = files
                /\ pc' = "loop" /\ i' = i + 1]_vars

\* a run in which every fetch failed has ended, several records attempted
C11_Witness ==
    /\ pc = "done" /\ NoSuccess
    /\ Cardinality(Attempted) >= NUM_JOURNALS
    /\ exit_code = 1

----------------------------------------------------------------------------
(* C19: the file comes before the status.  In every state, interrupted     *)
(* runs included, a record that is 'yes' in memory or in the stored table  *)
(* has its PDF file in the output folder, and so has the record whose      *)
(* success is about to be recorded; a status becomes 'yes' only for a      *)
(* record whose file is already there.                                     *)
C19_FileBeforeStatus ==
    /\ [](/\ \A r \in DOMAIN rows : rows[r] = "yes" => r \in files
          /\ \A r \in DOMAIN disk.rows : disk.rows[r] = "yes" => r \in files
          /\ pc = "mark_yes" => i \in files)
    /\ [][\A r \in DOMAIN rows \cap DOMAIN rows' :
             (rows[r] # "yes" /\ rows'[r] = "yes") => r \in files]_vars

\* a run was interrupted between the file write and the save: the file is
\* there and the stored record is still unattempted
C19_Witness ==
    /\ pc = "killed"
    /\ disk.header
    /\ \E r \in files : r \in DOMAIN disk.rows /\ disk.rows[r] = ""

----------------------------------------------------------------------------
\* the 'yes' records a journal had when the run loaded the table
PriorYes(j) ==
    Cardinality({r \in DOMAIN loaded : journal[r] = j /\ loaded[r] = "yes"})

\* the journal still has a record nobody attempted
HasUnattempted(j) == \E r \in DOMAIN rows : journal[r] = j /\ rows[r] = ""

(* C12: journals without previous downloads come first.  When a run ends,  *)
(* no journal that had 'yes' records at load is active while a journal     *)
(* that had none, and has an unattempted record, is inactive.  (Stated for *)
(* runs that loaded the whole table.)                                      *)
C12_ZeroPriorFirst ==
    (pc = "done" /\ Len(loaded) = Len(journal)) =>
        ~ \E j \in active_journals, k \in Journals \ active_journals :
              /\ PriorYes(j) > 0
              /\ PriorYes(k) = 0
              /\ HasUnattempted(k)

----------------------------------------------------------------------------
(* encode_doi_for_filename.  A string is a sequence of one-character       *)
(* strings.                                                                *)

MaxDoiLen == 2

HttpsPrefix ==
    <<"h", "t", "t", "p", "s", ":", "/", "/", "d", "o", "i", ".", "o", "r", "g", "/">>
HttpPrefix ==
    <<"h", "t", "t", "p", ":", "/", "/", "d", "o", "i", ".", "o", "r", "g", "/">>

StartsWith(s, prefix) ==
    Len(s) >= Len(prefix) /\ SubSeq(s, 1, Len(prefix)) = prefix

\* lines 113-116: doi[16:], doi[15:]
StripPrefix(s) ==
    IF StartsWith(s, HttpsPrefix) THEN SubSeq(s, 16 + 1, Len(s))
    ELSE IF StartsWith(s, HttpPrefix) THEN SubSeq(s, 15 + 1, Len(s))
    ELSE s

\* line 119: doi.replace('/', '__')
RECURSIVE ReplaceSlashes(_)
ReplaceSlashes(s) ==
    IF s = <<>> THEN <<>>
    ELSE (IF Head(s) = "/" THEN <<"_", "_">> ELSE <<Head(s)>>)
         \o ReplaceSlashes(Tail(s))

\* urllib.parse.quote never encodes letters, digits and '_.-~'; safe='_-.' adds nothing
Unreserved ==
    {"a", "b", "c", "d", "e", "f", "g", "h", "i", "j", "k", "l", "m",
     "n", "o", "p", "q", "r", "s", "t", "u", "v", "w", "x", "y", "z",
     "A", "B", "C", "D", "E", "F", "G", "H", "I", "J", "K", "L", "M",
     "N", "O", "P", "Q", "R", "S", "T", "U", "V", "W", "X", "Y", "Z",
     "0", "1", "2", "3", "4", "5", "6", "7", "8", "9",
     "_", ".", "-", "~"}

\* the two hexadecimal digits of a character's code
HexCode(c) ==
    CASE c = " " -> <<"2", "0">>
      [] c = "%" -> <<"2", "5">>
      [] c = "/" -> <<"2", "F">>
      [] c = ":" -> <<"3", "A">>

\* fault variant: an unsafe character is replaced by an underscore (C13 fails with it)
PercentEncode_Underscore(c) == <<"_">>

PercentEncode(c) == <<"%">> \o HexCode(c)

\* line 125: quote(doi, safe='_-.')
RECURSIVE quote(_)
quote(s) ==
    IF s = <<>> THEN <<>>
    ELSE (IF Head(s) \in Unreserved THEN <<Head(s)>> ELSE PercentEncode(Head(s)))
         \o quote(Tail(s))

encode_doi_for_filename(d) == quote(ReplaceSlashes(StripPrefix(d)))

\* main, line 231
FileNameOf(d) == encode_doi_for_filename(d) \o <<".", "p", "d", "f">>

\* the identifiers tried: an optional resolver prefix (or two of them) and a
\* remainder of at most MaxDoiLen characters
DoiAlphabet == {"/", "_", "a", "%", " "}

RECURSIVE StringsUpTo(_)
StringsUpTo(n) ==
    IF n = 0 THEN {<<>>}
    ELSE LET shorter == StringsUpTo(n - 1)
         IN  shorter \cup {Append(t, c) : t \in shorter, c \in DoiAlphabet}

DoiPrefixes == {<<>>, HttpsPrefix, HttpPrefix, HttpsPrefix \o HttpPrefix}

Dois == {pre \o rest : pre \in DoiPrefixes, rest \in StringsUpTo(MaxDoiLen)}

InitEncode ==
    /\ journal = <<>>
    /\ disk = [header |-> TRUE, rows |-> <<>>]
    /\ files = {}
    /\ pc = "idle"
    /\ rows = <<>>
    /\ journals_by_priority = <<>>
    /\ downloads_successful = 0
    /\ downloads_per_journal = ZeroPerJournal
    /\ attempted_per_journal = ZeroPerJournal
    /\ active_journals = {}
    /\ i = 0
    /\ exit_code = NoExit
    /\ runs = 0
    /\ kills = 0
    /\ loaded = <<>>
    /\ fetches = <<>>
    /\ doi \in Dois \X Dois
    /\ filename = <<>>
    /\ other = NotStarted

\* main, lines 230-231, for the two records
EncodeNames ==
    /\ filename = <<>>
    /\ doi # <<>>
    /\ filename' = <<FileNameOf(doi[1]), FileNameOf(doi[2])>>
    /\ UNCHANGED <<doi, other, journal, disk, files, pc, rows, journals_by_priority,
                   downloads_successful, downloads_per_journal,
                   attempted_per_journal, active_journals, i, exit_code, runs, kills,
                   loaded, fetches>>

NextEncode == EncodeNames

SpecEncode == InitEncode /\ [][NextEncode]_vars

\* every underscore stands alone: no underscore and no slash next to it
Isolated(s) ==
    \A k \in DOMAIN s :
        s[k] = "_" =>
            /\ k > 1 => s[k - 1] \notin {"_", "/"}
            /\ k < Len(s) => s[k + 1] \notin {"_", "/"}

(* C13: encode_doi_for_filename is injective: two distinct identifiers     *)
(* never get the same file name.                                           *)
C13_Injective ==
    (filename # <<>> /\ doi[1] # doi[2]) => filename[1] # filename[2]

(* C13, amended: the same identifier always gets the same file name, and   *)
(* two identifiers get distinct file names whenever they differ after the  *)
(* resolver prefix is stripped and, in both remainders, every underscore   *)
(* stands alone.                                                           *)
C13_InjectiveAmended ==
    filename # <<>> =>
        /\ doi[1] = doi[2] => filename[1] = filename[2]
        /\ ( /\ StripPrefix(doi[1]) # StripPrefix(doi[2])
             /\ Isolated(StripPrefix(doi[1]))
             /\ Isolated(StripPrefix(doi[2])) ) => filename[1] # filename[2]

\* two identifiers with slashes, an underscore and a character to encode, one
\* of them prefixed, got distinct names
C13_Witness ==
    /\ filename # <<>>
    /\ doi[1] = HttpsPrefix \o <<"/", "%">>
    /\ doi[2] = <<"_", "%">>
    /\ filename[1] = <<"_", "_", "%", "2", "5", ".", "p", "d", "f">>
    /\ filename[2] = <<"_", "%", "2", "5", ".", "p", "d", "f">>

----------------------------------------------------------------------------
(* Two processes on the same CSV file and the same PDF folder.  The        *)
(* variables of main() belong to the process that is running; `other`      *)
(* holds those of the process that is not, and Switch hands the processor  *)
(* over.  The file, the folder and the histories are shared.               *)

Local ==
    [pc |-> pc, rows |-> rows, journals_by_priority |-> journals_by_priority,
     downloads_successful |-> downloads_successful,
     downloads_per_journal |-> downloads_per_journal,
     attempted_per_journal |-> attempted_per_journal,
     active_journals |-> active_journals,
     i |-> i, exit_code |-> exit_code, loaded |-> loaded]

Switch ==
    /\ other' = Local
    /\ pc' = other.pc
    /\ rows' = other.rows
    /\ journals_by_priority' = other.journals_by_priority
    /\ downloads_successful' = other.downloads_successful
    /\ downloads_per_journal' = other.downloads_per_journal
    /\ attempted_per_journal' = other.attempted_per_journal
    /\ active_journals' = other.active_journals
    /\ i' = other.i
    /\ exit_code' = other.exit_code
    /\ loaded' = other.loaded
    /\ UNCHANGED <<doi, filename, journal, disk, files, runs, kills, fetches>>

\* the tables two processes are run on: TwoRows records of journals 1 and 2,
\* journal by journal
TwoRows == 4

TwoTables ==
    {[r \in 1..TwoRows |-> IF r <= n THEN 1 ELSE 2] : n \in 1..TwoRows}

InitTwo == InitFrom(TwoTables)

\* the script is invoked twice
Processes == 2

\* with two journals no record is passed over for an inactive journal
NextTwo ==
    \/ (runs < Processes /\ StartRun)
    \/ Finish
    \/ SkipSettled
    \/ SkipQuota
    \/ Download
    \/ MarkYes
    \/ MarkUnavailable
    \/ WriteOpen
    \/ WriteClose
    \/ Sleep
    \/ Switch

SpecTwo == InitTwo /\ [][NextTwo]_vars

\* the statuses in view v are those on disk, but for a record marked and not yet saved
OnDisk(v) ==
    /\ Len(v.rows) = Len(disk.rows)
    /\ \A r \in DOMAIN disk.rows :
          disk.rows[r] # v.rows[r] =>
              (r = v.i /\ v.pc \in {"write_csv", "writing"})

(* C14: two processes on one file: the last writer wins and nothing        *)
(* detects it.  Every completed write_csv leaves on disk exactly the       *)
(* table the writing process holds in memory, whatever the other process   *)
(* had saved; a process's table differs from what it loaded only in the    *)
(* records it attempted itself, and its exit code follows from its own     *)
(* count alone; a complete file is always the table of one of the two      *)
(* processes or the file nobody has written yet.                           *)
C14_LastWriterWins ==
    /\ [](/\ pc \in Running \cup {"done"} =>
                \A r \in Records :
                    rows[r] # loaded[r] => (loaded[r] = "" /\ fetches[r] > 0)
          /\ pc = "done" => exit_code = ExitCode(downloads_successful)
          /\ disk.header =>
                \/ OnDisk(Local)
                \/ OnDisk(other)
                \/ \A r \in DOMAIN disk.rows : disk.rows[r] = "")
    /\ [][(pc = "writing" /\ pc' # "writing" /\ other' = other) =>
             (disk'.header /\ disk'.rows = rows)]_vars

\* both processes have returned; a record the other process had turned into
\* 'yes' and saved, whose file exists, is unattempted in the file
C14_Witness ==
    /\ pc = "done" /\ other.pc = "done"
    /\ disk.header
    /\ \E r \in DOMAIN disk.rows :
          /\ other.rows[r] = "yes" /\ other.loaded[r] = ""
          /\ r \in files
          /\ disk.rows[r] = ""

====
